---------------------------- MODULE Spec2Model ----------------------------
(***************************************************************************)
(* Model of the upload orchestration layer of the Irys JS SDK              *)
(* (src/src/common/upload.ts, class Uploader).                             *)
(*                                                                         *)
(* Five state machines share this module:                                  *)
(*   Spec         - successive calls of Uploader.uploadTransaction, with   *)
(*                  the useChunking setter in between;                     *)
(*   PoolSpec     - one run of Uploader.concurrentUploader, i.e. the       *)
(*                  PromisePool loop, the async-retry loop of every item   *)
(*                  and the handleError callback;                          *)
(*   ManifestSpec - calls of Uploader.generateManifest;                    *)
(*   BundleSpec   - successive calls of Uploader.uploadMany;               *)
(*   ItemSpec     - calls of Uploader.processItem / Uploader.uploadData.   *)
(* The machines are independent: each leaves the others' variables alone.  *)
(***************************************************************************)
EXTENDS Integers, Sequences, FiniteSets, TLC

(***************************************************************************)
(* Program constants.                                                      *)
(***************************************************************************)
\* upload.ts:24  export const CHUNKING_THRESHOLD = 50_000_000
CHUNKING_THRESHOLD == 50000000

\* upload.ts:79 and 129/147: the message by which the funds condition is known
FundsMessage == "Not enough funds to send data"

\* upload.ts:124  opts?.concurrency ?? 5, and upload.ts:126  ... : 5
DefaultConcurrency == 5

\* upload.ts:153  { retries: 3, ... }: async-retry runs the function once and
\* then retries it up to `retries` times
Retries == 3

(***************************************************************************)
(* Bounds of the model.                                                    *)
(***************************************************************************)
\* number of uploadTransaction calls followed in one behaviour of Spec
MaxCalls == 2

\* largest number of items handed to concurrentUploader
MaxItems == 6

\* largest number of items in a run whose uploads or callbacks can fail
MaxFailingItems == 3

\* largest concurrency option tried
MaxConcurrency == 2

\* number of uploadMany calls followed in one behaviour of BundleSpec
MaxBundles == 2

\* largest number of members handed to one uploadMany call
MaxMembers == 2

(***************************************************************************)
(* Input domains of uploadTransaction.                                     *)
(***************************************************************************)
\* raw sizes of a signed item: around the threshold, and a small one
RawLens == {1, CHUNKING_THRESHOLD - 1, CHUNKING_THRESHOLD, CHUNKING_THRESHOLD + 1}

\* identifiers of signed items (transaction.id)
ItemIds == {"id1", "id2"}

\* opts?.getReceiptSignature: opts or the field absent, true, false
ReceiptOpts == {"absent", "true", "false"}

\* HTTP statuses a response can carry
Statuses == {200, 201, 399, 400, 402, 404, 500}

\* res.statusText
StatusTexts == {"Created", "Payment Required"}

\* res.data as sent by the server: a receipt, a bare id, or something else
ServerBodies ==
    { [id |-> i, signature |-> s] : i \in {"id1", "srvId"}, s \in {"undefined", "sig"} }

\* the three values of the field forceUseChunking (upload.ts:32)
ForceStates == {"undefined", "true", "false"}

VARIABLES
    forceUseChunking,   \* Uploader.forceUseChunking
    utPc,               \* position of the current uploadTransaction call
    utCall,             \* its arguments
    utPosts,            \* direct HTTP POSTs issued by the current call
    utChunked,          \* chunkedUploader.uploadTransaction calls of the current call
    utRequest,          \* the request of the direct POST
    utResponse,         \* the response the call received
    utRet,              \* what the call returned or threw
    utCalls             \* calls begun so far

VARIABLES
    phase,      \* concurrentUploader: "running", "returned" or "thrown"
    opts,       \* its arguments: number of items, opts.concurrency, callbacks
    nextIdx,    \* index of the next item the pool's loop will start
    task,       \* per item: state of the pool's task
    op,         \* per item: state of the async-retry operation
    attempts,   \* per item: attempts begun (calls of processItem)
    uploads,    \* per item: calls of processItem that succeeded
    errors,     \* the local array `errors` (upload.ts:118)
    results,    \* the pool's results array
    ret,        \* what concurrentUploader returned or threw
    server      \* the statuses the bundler answers with during the run

utVars == <<forceUseChunking, utPc, utCall, utPosts, utChunked, utRequest,
            utResponse, utRet, utCalls>>

poolVars == <<phase, opts, nextIdx, task, op, attempts, uploads, errors, results, ret,
              server>>

VARIABLES
    mfCall,     \* generateManifest: the arguments of the last call
    mfRet       \* what it returned or threw

VARIABLES
    umPc,       \* uploadMany: position of the current call
    umCalls,    \* calls begun so far
    umKeys,     \* the ephemeral keys generated so far, oldest first
    umCall,     \* the current call: its arguments and what it built
    umSent,     \* the items the current call handed to uploadTransaction
    umRes,      \* what that uploadTransaction returned or threw
    umRet       \* what uploadMany returned or threw

VARIABLES
    piPc,       \* processItem / uploadData: position of the current call
    piCall,     \* its arguments
    piDone,     \* what the call did: item built, signatures made, route taken
    piRet       \* what it returned or threw

mfVars == <<mfCall, mfRet>>

umVars == <<umPc, umCalls, umKeys, umCall, umSent, umRes, umRet>>

piVars == <<piPc, piCall, piDone, piRet>>

vars == <<utVars, poolVars, mfVars, umVars, piVars>>

NoCall == [isDataItem |-> FALSE, rawLen |-> 0, id |-> "none", receipt |-> "absent"]
NoRequest == [currency |-> "none", contentType |-> "none", xProofType |-> "none"]
NoResponse == [status |-> 0, statusText |-> "none", data |-> [id |-> "none", signature |-> "undefined"]]
NoError == [text |-> "none", status |-> 0, statusText |-> "none",
            body |-> [id |-> "none", signature |-> "undefined"]]
NoData == [id |-> "none", signature |-> "undefined"]
NoRet == [kind |-> "none", status |-> 0, data |-> NoData, verify |-> FALSE, error |-> NoError]


(***************************************************************************)
(* Uploader.uploadTransaction (upload.ts:56-89).                           *)
(***************************************************************************)
\* a faulty routing condition (> for >=), which C1_RoutingDecidedOnce detects
UseChunkedStrict(force, isDataItem, rawLen) ==
    \/ force = "true"
    \/ (isDataItem /\ rawLen > CHUNKING_THRESHOLD)
    \/ ~isDataItem

\* upload.ts:59, the routing condition: TRUE = the chunked collaborator
UseChunked(force, isDataItem, rawLen) ==
    \/ force = "true"
    \/ (isDataItem /\ rawLen >= CHUNKING_THRESHOLD)
    \/ ~isDataItem

\* upload.ts:63-64, the headers of the direct POST
DirectRequest(receipt) ==
    [currency |-> "currency", contentType |-> "application/octet-stream",
     xProofType |-> IF receipt = "true" THEN "receipt" ELSE "none"]

\* a faulty variant without the throw, which C3_Receipt201 detects
Direct201ThrowsNever(receipt, status) == FALSE

\* upload.ts:70-73: on the direct path a 201 answer to a receipt request throws
\* new Error(res.data)
Direct201Throws(receipt, status) == status = 201 /\ receipt = "true"

\* a faulty variant that keeps the server body, which C4_Direct201Id detects
DirectDataKeepBody(status, body, id) == body

\* upload.ts:74: on the direct path a 201 answer has its data replaced
DirectData(status, body, id) ==
    IF status = 201 THEN [id |-> id, signature |-> "undefined"] ELSE body

\* a faulty status switch without the 402 case, which C2_StatusClassification
\* detects
StatusErrorNo402(status, statusText) ==
    IF status >= 400
    THEN [text |-> "whilst uploading Irys transaction", status |-> status,
          statusText |-> statusText, body |-> NoData]
    ELSE NoError

\* upload.ts:77-84: the status switch; NoError when nothing is thrown
StatusError(status, statusText) ==
    IF status = 402
    THEN [text |-> FundsMessage, status |-> 0, statusText |-> "none", body |-> NoData]
    ELSE IF status >= 400
    THEN [text |-> "whilst uploading Irys transaction", status |-> status,
          statusText |-> statusText, body |-> NoData]
    ELSE NoError

\* upload.ts:85-87: verify is attached when opts?.getReceiptSignature is truthy
AttachVerify(receipt) == receipt = "true"

Thrown(err) == [kind |-> "error", status |-> 0, data |-> NoData, verify |-> FALSE,
                error |-> err]

\* upload.ts:60-88: what the call returns or throws, given the route taken and
\* the response received
UploadTransactionResult(route, call, resp) ==
    IF route = "direct" /\ Direct201Throws(call.receipt, resp.status)
    THEN Thrown([text |-> "body", status |-> 0, statusText |-> "none", body |-> resp.data])
    ELSE LET data == IF route = "direct"
                     THEN DirectData(resp.status, resp.data, call.id)
                     ELSE resp.data
             err  == StatusError(resp.status, resp.statusText)
         IN  IF err # NoError
             THEN Thrown(err)
             ELSE [kind |-> "ok", status |-> resp.status, data |-> data,
                   verify |-> AttachVerify(call.receipt), error |-> NoError]

\* upload.ts:196-200, set useChunking: only a boolean is stored
SetUseChunking(state) ==
    /\ utPc = "idle"
    /\ forceUseChunking' = IF state \in {"true", "false"} THEN state ELSE forceUseChunking
    /\ UNCHANGED <<utPc, utCall, utPosts, utChunked, utRequest, utResponse, utRet, utCalls>>
    /\ UNCHANGED <<poolVars, mfVars, umVars, piVars>>

\* upload.ts:56-69: the call is made, the route is chosen and the request leaves
UploadTransactionSend(call) ==
    /\ utPc = "idle"
    /\ utCalls < MaxCalls
    /\ utCalls' = utCalls + 1
    /\ utCall' = call
    /\ utRet' = NoRet
    /\ utResponse' = NoResponse
    /\ IF UseChunked(forceUseChunking, call.isDataItem, call.rawLen)
       THEN /\ utPc' = "chunked"
            /\ utChunked' = 1
            /\ utPosts' = 0
            /\ utRequest' = NoRequest
       ELSE /\ utPc' = "direct"
            /\ utChunked' = 0
            /\ utPosts' = 1
            /\ utRequest' = DirectRequest(call.receipt)
    /\ UNCHANGED forceUseChunking
    /\ UNCHANGED <<poolVars, mfVars, umVars, piVars>>

\* upload.ts:60 / 65-88: the response arrives and is classified
UploadTransactionRespond(resp) ==
    /\ utPc \in {"direct", "chunked"}
    /\ utResponse' = resp
    /\ utRet' = UploadTransactionResult(utPc, utCall, resp)
    /\ utPc' = "idle"
    /\ UNCHANGED <<forceUseChunking, utCall, utPosts, utChunked, utRequest, utCalls>>
    /\ UNCHANGED <<poolVars, mfVars, umVars, piVars>>

\* the arguments a call can have: a signed item of some size, or a buffer/stream
Calls ==
    { [isDataItem |-> TRUE, rawLen |-> l, id |-> i, receipt |-> r] :
        l \in RawLens, i \in ItemIds, r \in ReceiptOpts }
    \cup
    { [isDataItem |-> FALSE, rawLen |-> l, id |-> "none", receipt |-> r] :
        l \in {1, CHUNKING_THRESHOLD}, r \in ReceiptOpts }

Responses ==
    { [status |-> st, statusText |-> tx, data |-> b] :
        st \in Statuses, tx \in StatusTexts, b \in ServerBodies }

UploaderInit ==
    /\ forceUseChunking = "undefined"
    /\ utPc = "idle"
    /\ utCall = NoCall
    /\ utPosts = 0
    /\ utChunked = 0
    /\ utRequest = NoRequest
    /\ utResponse = NoResponse
    /\ utRet = NoRet
    /\ utCalls = 0

Next ==
    \/ \E state \in {"true", "false", "notBoolean"} : SetUseChunking(state)
    \/ \E call \in Calls : UploadTransactionSend(call)
    \/ \E resp \in Responses : UploadTransactionRespond(resp)

(***************************************************************************)
(* Uploader.concurrentUploader (upload.ts:109-157).                        *)
(*                                                                         *)
(* The pool (PromisePool.for(data).withConcurrency(c).handleError(h)       *)
(* .process(f)) starts the items in input order while fewer than c tasks   *)
(* are active, saves what f returns into its results, hands what f throws  *)
(* to h, and rejects as a whole when h throws.  The retry operation        *)
(* (retry(fn, {retries: 3, ...})) calls fn, and calls it again after a     *)
(* backoff each time it throws, while retries are left; bail(e) rejects    *)
(* the promise of retry at once.                                           *)
(*                                                                         *)
(* One step of the model is one turn of the event loop: the arrival of an  *)
(* upload's response or the firing of a backoff timer, together with the   *)
(* promise reactions that follow it.  The loop of the pool is a step of    *)
(* its own (StartItem).  A throw of handleError rejects the task; every    *)
(* await of the pool's loop is on the tasks, so the rejection ends the     *)
(* loop in the same turn.                                                  *)
(***************************************************************************)
NoOpts == [n |-> 0, concGiven |-> FALSE, conc |-> 0, hasLog |-> FALSE, hasRP |-> FALSE]

\* the value of an expression that returns nothing
Undefined == [defined |-> FALSE, item |-> 0, res |-> 0, i |-> 0, processed |-> FALSE]

NoPoolRet == [kind |-> "none", errors |-> <<>>, results |-> <<>>, error |-> "none"]

\* statuses the upload of an attempt can end with
PoolStatuses == {200, 402, 500}

\* messages of the errors a supplied callback can throw: any message, and in
\* particular the one of the funds condition
CallbackErrors == {"other", FundsMessage}

\* opts.concurrency: absent, or a number
ConcurrencyOpts ==
    {[given |-> FALSE, value |-> 0]}
    \cup {[given |-> TRUE, value |-> c] : c \in (-1)..MaxConcurrency}

Items == 0..(opts.n - 1)

Abs(x) == IF x < 0 THEN -x ELSE x

\* upload.ts:124  const concurrency = opts?.concurrency ?? 5
Concurrency(o) == IF o.concGiven THEN o.conc ELSE DefaultConcurrency

\* a faulty coercion (> for >=), which C5_ConcurrencyBound detects
EffectiveConcurrencyAboveOne(o) ==
    IF Concurrency(o) > 1 THEN Concurrency(o) ELSE DefaultConcurrency

\* upload.ts:126  .withConcurrency(concurrency >= 1 ? concurrency : 5)
EffectiveConcurrency(o) ==
    IF Concurrency(o) >= 1 THEN Concurrency(o) ELSE DefaultConcurrency

\* upload.ts:138  if (i % concurrency == 0): the remainder of a non-negative i
\* is 0 when |concurrency| divides it, and NaN when concurrency is 0
LogDue(i, o) == Concurrency(o) # 0 /\ i % Abs(Concurrency(o)) = 0

\* upload.ts:136-151, the function retried: what one attempt returns or throws,
\* given the status of the upload and whether the callbacks succeed.  The upload
\* (processItem) fails as uploadTransaction does, by the status switch.  Errors
\* other than the funds condition are not told apart ("other"): the code treats
\* them alike, and retry rejects with one of them when the retries run out.
\* A callback that throws does so with the message cbText, which is the
\* caller's to choose.
AttemptResult(i, o, status, logOk, rpOk, cbText) ==
    LET err == StatusError(status, "none")
        fail(text) == [kind |-> "error", text |-> text, value |-> Undefined]
        triple == [defined |-> TRUE, item |-> i, res |-> status, i |-> i,
                   processed |-> FALSE]
    IN  IF err # NoError THEN fail(IF err.text = FundsMessage THEN FundsMessage ELSE "other")
        ELSE IF LogDue(i, o) /\ ~logOk THEN fail(cbText)
        ELSE IF o.hasRP
        THEN IF rpOk
             THEN [kind |-> "value", text |-> "none",
                   value |-> [triple EXCEPT !.processed = TRUE]]
             ELSE fail(cbText)
        ELSE [kind |-> "value", text |-> "none", value |-> triple]

\* upload.ts:133-155, the callback given to process(): it awaits retry(...) and
\* has no return statement, so the pool saves undefined
ProcessCallbackResult(retryValue) == Undefined

\* a faulty variant in which `retries` counts the attempts, which C6_RetryBound
\* detects
RetryLeftOneLess(made) == made < Retries

\* upload.ts:153, retries: 3: the retry operation has a retry left after the
\* attempts made so far (the first attempt is not a retry)
RetryLeft(made) == made < 1 + Retries

\* upload.ts:147-149: the error is the funds condition, bail is called
IsFunds(text) == text = FundsMessage

\* faulty variants of the rethrow: never (C7_NoStartAfterFunds and
\* C8_ErrorsAsData detect it) and for every error (C10_AllItemsSettle detects it)
HandleErrorThrowsNever(text) == FALSE

HandleErrorThrowsAlways(text) == TRUE

\* upload.ts:129-131: handleError throws the error again when it is the funds
\* condition
HandleErrorThrows(text) == text = FundsMessage

\* the tasks the pool counts as active: started, and not removed
ActiveTasks == {i \in Items : task[i] \in {"running", "fatal"}}

\* the pool's loop starts the next item (startProcessing), which calls the
\* process callback, retry and the first attempt's processItem
StartItem ==
    /\ phase = "running"
    /\ nextIdx < opts.n
    /\ Cardinality(ActiveTasks) < EffectiveConcurrency(opts)
    /\ task' = [task EXCEPT ![nextIdx] = "running"]
    /\ op' = [op EXCEPT ![nextIdx] = "attempt"]
    /\ attempts' = [attempts EXCEPT ![nextIdx] = 1]
    /\ nextIdx' = nextIdx + 1
    /\ UNCHANGED <<phase, opts, uploads, errors, results, ret, server>>
    /\ UNCHANGED <<utVars, mfVars, umVars, piVars>>

\* variant: the handler puts the error first in the list
HandleErrorUnshift(i, text) ==
    /\ errors' = <<[i |-> i, text |-> text]>> \o errors
    /\ IF HandleErrorThrows(text)
       THEN /\ task' = [task EXCEPT ![i] = "fatal"]
            /\ IF phase = "running"
               THEN /\ phase' = "thrown"
                    /\ ret' = [kind |-> "thrown", errors |-> <<>>, results |-> <<>>,
                               error |-> text]
               ELSE UNCHANGED <<phase, ret>>
       ELSE /\ task' = [task EXCEPT ![i] = "failed"]
            /\ UNCHANGED <<phase, ret>>

\* upload.ts:127-132, handleError, and what the pool does with its outcome:
\* the error is pushed; a throw rejects the task and with it the pool
HandleError(i, text) ==
    /\ errors' = Append(errors, [i |-> i, text |-> text])
    /\ IF HandleErrorThrows(text)
       THEN /\ task' = [task EXCEPT ![i] = "fatal"]
            /\ IF phase = "running"
               THEN /\ phase' = "thrown"
                    /\ ret' = [kind |-> "thrown", errors |-> <<>>, results |-> <<>>,
                               error |-> text]
               ELSE UNCHANGED <<phase, ret>>
       ELSE /\ task' = [task EXCEPT ![i] = "failed"]
            /\ UNCHANGED <<phase, ret>>

\* an attempt of item i ends: the upload answered with `status`, and the
\* callbacks ran (upload.ts:134-154 with the reactions of retry and the pool)
AttemptEnd(i, status, logOk, rpOk, cbText) ==
    /\ op[i] = "attempt"
    /\ uploads' = [uploads EXCEPT ![i] = IF StatusError(status, "none") = NoError
                                         THEN uploads[i] + 1 ELSE uploads[i]]
    /\ LET r == AttemptResult(i, opts, status, logOk, rpOk, cbText)
           settled == task[i] # "running"
       IN  IF r.kind = "value"
           THEN \* retry resolves; the pool saves what the callback returns
                /\ op' = [op EXCEPT ![i] = "done"]
                /\ IF settled
                   THEN UNCHANGED <<task, results>>
                   ELSE /\ task' = [task EXCEPT ![i] = "saved"]
                        /\ results' = Append(results, ProcessCallbackResult(r.value))
                /\ UNCHANGED <<phase, errors, ret>>
           ELSE IF IsFunds(r.text)
           THEN \* bail(e) rejects retry; `throw e` then reaches the retry
                \* operation like any other error
                /\ op' = [op EXCEPT ![i] = IF RetryLeft(attempts[i]) THEN "wait" ELSE "done"]
                /\ IF settled
                   THEN UNCHANGED <<task, errors, phase, ret>>
                   ELSE HandleError(i, r.text)
                /\ UNCHANGED results
           ELSE IF RetryLeft(attempts[i])
           THEN /\ op' = [op EXCEPT ![i] = "wait"]
                /\ UNCHANGED <<task, errors, results, phase, ret>>
           ELSE \* retries exhausted: retry rejects
                /\ op' = [op EXCEPT ![i] = "done"]
                /\ IF settled
                   THEN UNCHANGED <<task, errors, phase, ret>>
                   ELSE HandleError(i, r.text)
                /\ UNCHANGED results
    /\ UNCHANGED <<opts, nextIdx, attempts, server>>
    /\ UNCHANGED <<utVars, mfVars, umVars, piVars>>

\* the backoff timer of item i fires: the next attempt begins
RetryTimer(i) ==
    /\ op[i] = "wait"
    /\ op' = [op EXCEPT ![i] = "attempt"]
    /\ attempts' = [attempts EXCEPT ![i] = attempts[i] + 1]
    /\ UNCHANGED <<phase, opts, nextIdx, task, uploads, errors, results, ret, server>>
    /\ UNCHANGED <<utVars, mfVars, umVars, piVars>>

\* upload.ts:156: every item was started and every task is fulfilled
Return ==
    /\ phase = "running"
    /\ nextIdx = opts.n
    /\ \A i \in Items : task[i] \in {"saved", "failed"}
    /\ phase' = "returned"
    /\ ret' = [kind |-> "returned", errors |-> errors, results |-> results,
               error |-> "none"]
    /\ UNCHANGED <<opts, nextIdx, task, op, attempts, uploads, errors, results, server>>
    /\ UNCHANGED <<utVars, mfVars, umVars, piVars>>

PoolIdle ==
    /\ phase = "idle"
    /\ opts = NoOpts
    /\ nextIdx = 0
    /\ task = <<>>
    /\ op = <<>>
    /\ attempts = <<>>
    /\ uploads = <<>>
    /\ errors = <<>>
    /\ results = <<>>
    /\ ret = NoPoolRet
    /\ server = {}

\* the runs followed. Runs of up to MaxItems items whose uploads all succeed,
\* with no callback supplied, under every concurrency option. Runs of up to
\* MaxFailingItems items, under a supplied concurrency >= 1, of two kinds:
\* uploads can be rejected (500) or refused for lack of funds (402) and no
\* callback is supplied; every upload succeeds and a supplied logFunction can
\* throw. And runs of one item in which uploads can fail and both a supplied
\* logFunction and a supplied resultProcessor can throw.
Scenarios ==
    { [n |-> n, c |-> c, log |-> FALSE, rp |-> FALSE, server |-> {200}] :
        n \in 1..MaxItems, c \in ConcurrencyOpts }
    \cup
    { [n |-> n, c |-> c, log |-> k.log, rp |-> k.rp, server |-> k.server] :
        n \in 1..MaxFailingItems,
        c \in {x \in ConcurrencyOpts : x.given /\ x.value >= 1},
        k \in { [log |-> FALSE, rp |-> FALSE, server |-> PoolStatuses],
                [log |-> TRUE, rp |-> FALSE, server |-> {200}] } }
    \cup
    { [n |-> 1, c |-> [given |-> TRUE, value |-> 1], log |-> TRUE, rp |-> TRUE,
       server |-> PoolStatuses] }

\* concurrentUploader is called with n items and some options
PoolInit ==
    /\ \E sc \in Scenarios :
          /\ opts = [n |-> sc.n, concGiven |-> sc.c.given, conc |-> sc.c.value,
                     hasLog |-> sc.log, hasRP |-> sc.rp]
          /\ server = sc.server
    /\ phase = "running"
    /\ nextIdx = 0
    /\ task = [i \in Items |-> "pending"]
    /\ op = [i \in Items |-> "idle"]
    /\ attempts = [i \in Items |-> 0]
    /\ uploads = [i \in Items |-> 0]
    /\ errors = <<>>
    /\ results = <<>>
    /\ ret = NoPoolRet

\* what can happen in an attempt of item i: the answer of the bundler, and a
\* throw of a callback that is supplied and reached
AttemptInputs(i) ==
    { [status |-> st, logOk |-> TRUE, rpOk |-> TRUE, cbText |-> "none"] :
        st \in server }
    \cup
    { [status |-> st, logOk |-> FALSE, rpOk |-> TRUE, cbText |-> t] :
        st \in {x \in server : x < 400 /\ opts.hasLog /\ LogDue(i, opts)},
        t \in CallbackErrors }
    \cup
    { [status |-> st, logOk |-> TRUE, rpOk |-> FALSE, cbText |-> t] :
        st \in {x \in server : x < 400 /\ opts.hasRP},
        t \in CallbackErrors }

PoolNext ==
    \/ StartItem
    \/ \E i \in Items : \E a \in AttemptInputs(i) :
            AttemptEnd(i, a.status, a.logOk, a.rpOk, a.cbText)
    \/ \E i \in Items : RetryTimer(i)
    \/ Return

(***************************************************************************)
(* Uploader.generateManifest (upload.ts:172-190).                          *)
(***************************************************************************)
\* logical paths used as keys of the items Map: an ordinary one, the empty
\* string, and the name of the prototype accessor of plain objects
PathNames == {"index.html", "", "__proto__"}

\* the items Maps: a path -> identifier mapping over some of the paths
ItemMaps == UNION { [S -> ItemIds] : S \in SUBSET PathNames }

\* config.indexFile: absent, or a string, which may be a key or not
IndexFiles ==
    { [given |-> FALSE, path |-> ""] }
    \cup
    { [given |-> TRUE, path |-> p] : p \in PathNames \cup {"missing.html"} }

NoManifest ==
    [manifest |-> "none", version |-> "none", hasIndex |-> FALSE,
     index |-> [path |-> "none"], paths |-> [k \in {} |-> [id |-> "none"]]]

NoManifestCall == [items |-> [k \in {} |-> "none"], indexFile |-> [given |-> FALSE, path |-> ""]]

NoManifestRet == [kind |-> "none", item |-> "none", manifest |-> NoManifest]

\* upload.ts:180  if (indexFile): undefined and the empty string are falsy
IndexFileTruthy(indexFile) == indexFile.given /\ indexFile.path # ""

\* variant of the membership test that never finds the index missing
IndexMissingNever(items, indexFile) == FALSE

\* upload.ts:181  !items.has(indexFile)
IndexMissing(items, indexFile) == indexFile.path \notin DOMAIN items

\* upload.ts:186-188  manifest.paths[k] = { id: v } on the plain object
\* `paths`: the assignment creates the property k, except for "__proto__",
\* for which it runs the prototype setter and creates no property
AssignedPaths(items) ==
    [k \in {x \in DOMAIN items : x # "__proto__"} |-> [id |-> items[k]]]

\* upload.ts:172-190: what generateManifest returns or throws
\* (an Error "Unable to access item: <indexFile>")
GenerateManifest(items, indexFile) ==
    IF IndexFileTruthy(indexFile) /\ IndexMissing(items, indexFile)
    THEN [kind |-> "error", item |-> indexFile.path, manifest |-> NoManifest]
    ELSE [kind |-> "manifest", item |-> "none",
          manifest |->
              [manifest |-> "arweave/paths", version |-> "0.1.0",
               hasIndex |-> IndexFileTruthy(indexFile),
               index |-> [path |-> IF IndexFileTruthy(indexFile)
                                   THEN indexFile.path ELSE "none"],
               paths |-> AssignedPaths(items)]]

\* a call of generateManifest
GenerateManifestCall(items, indexFile) ==
    /\ mfCall' = [items |-> items, indexFile |-> indexFile]
    /\ mfRet' = GenerateManifest(items, indexFile)
    /\ UNCHANGED <<utVars, poolVars, umVars, piVars>>

ManifestIdle ==
    /\ mfCall = NoManifestCall
    /\ mfRet = NoManifestRet

ManifestNext ==
    \E items \in ItemMaps : \E indexFile \in IndexFiles :
        GenerateManifestCall(items, indexFile)

(***************************************************************************)
(* Uploader.uploadMany (upload.ts:224-248).                                *)
(*                                                                         *)
(* Keys, signers and items are those of the arbundles collaborator, kept   *)
(* abstract: a signer is known by its key, createData builds an unsigned   *)
(* item owned by a signer, signing gives the item an identifier that       *)
(* depends on its content and on the signer, and bundleAndSignData signs   *)
(* the members that are not signed yet and keeps the others as they are.   *)
(***************************************************************************)
\* this.currencyConfig.getSigner(): the signer of the configured wallet
CurrencySigner == [kind |-> "currency", n |-> 0]

\* the signer of an item that was signed elsewhere
OtherSigner == [kind |-> "other", n |-> 0]

NoKey == [kind |-> "none", n |-> 0]

NoId == [by |-> NoKey, of |-> "none"]

NoTags == <<>>

\* upload.ts:235-238, the tags of the wrapping item
BundleTags ==
    << [name |-> "Bundle-Format", value |-> "binary"],
       [name |-> "Bundle-Version", value |-> "2.0.0"] >>

\* variant of the key generator that hands out the first key again
GenerateJWKCached(generated) ==
    IF generated = <<>> THEN [kind |-> "ephemeral", n |-> 1] ELSE generated[1]

\* upload.ts:228  getCryptoDriver().generateJWK(): a key not generated before
GenerateJWK(generated) == [kind |-> "ephemeral", n |-> Len(generated) + 1]

\* arbundles createData(data, signer, {tags}): an unsigned item
CreateData(data, signer, tags, bundled) ==
    [isDataItem |-> TRUE, signed |-> FALSE, signer |-> signer, data |-> data,
     tags |-> tags, bundled |-> bundled, id |-> NoId]

\* arbundles DataItem.sign(signer): the item gets its identifier
Sign(item, signer) ==
    [item EXCEPT !.signed = TRUE, !.signer = signer,
                 !.id = [by |-> signer, of |-> item.data]]

\* a Buffer handed to uploadMany
RawMember(data) ==
    [isDataItem |-> FALSE, signed |-> FALSE, signer |-> NoKey, data |-> data,
     tags |-> NoTags, bundled |-> <<>>, id |-> NoId]

\* the members a caller can hand over: items signed beforehand, by the
\* configured signer or by another one, and raw buffers
Members ==
    { Sign(CreateData("a", sg, NoTags, <<>>), sg) : sg \in {CurrencySigner, OtherSigner} }
    \cup
    { RawMember(d) : d \in {"x", "y"} }

Transactions == UNION { [1..n -> Members] : n \in 0..MaxMembers }

\* variant that wraps every member anew, signed or not
MemberItemRewrap(tx, ephemeralSigner) ==
    CreateData(tx.data, ephemeralSigner, NoTags, <<>>)

\* upload.ts:230  isDataItem(tx) ? tx : createData(tx, ephemeralSigner)
MemberItem(tx, ephemeralSigner) ==
    IF tx.isDataItem THEN tx ELSE CreateData(tx.data, ephemeralSigner, NoTags, <<>>)

\* upload.ts:231  bundleAndSignData(txs, ephemeralSigner)
BundleAndSignData(txs, signer) ==
    [k \in 1..Len(txs) |-> IF txs[k].signed THEN txs[k] ELSE Sign(txs[k], signer)]

\* upload.ts:247  bundle.getIds()
GetIds(bundle) == [k \in 1..Len(bundle) |-> bundle[k].id]

\* upload.ts:243-245: the address is the hash of the ephemeral public key
EphemeralAddress(key) == [addressOf |-> key]

NoBundleCall ==
    [transactions |-> <<>>, receipt |-> "absent", ephemeralKey |-> NoKey,
     bundle |-> <<>>, tx |-> CreateData("none", NoKey, NoTags, <<>>)]

NoBundleRet ==
    [kind |-> "none", res |-> NoRet, txs |-> <<>>, ephemeralKey |-> NoKey,
     ephemeralAddress |-> EphemeralAddress(NoKey)]

\* variant that returns the bundle's data whatever the upload did
UploadManyResultAlways(res, call) ==
    [kind |-> "ok", res |-> res, txs |-> GetIds(call.bundle),
     ephemeralKey |-> call.ephemeralKey,
     ephemeralAddress |-> EphemeralAddress(call.ephemeralKey)]

\* upload.ts:242-247: a throw of uploadTransaction is not caught; otherwise
\* the response is returned with txs, ephemeralKey and ephemeralAddress added
UploadManyResult(res, call) ==
    IF res.kind = "error"
    THEN [kind |-> "error", res |-> res, txs |-> <<>>, ephemeralKey |-> NoKey,
          ephemeralAddress |-> EphemeralAddress(NoKey)]
    ELSE [kind |-> "ok", res |-> res, txs |-> GetIds(call.bundle),
          ephemeralKey |-> call.ephemeralKey,
          ephemeralAddress |-> EphemeralAddress(call.ephemeralKey)]

\* upload.ts:224-242: the call generates its key, builds and signs the bundle
\* and the wrapping item, and hands the wrapping item to uploadTransaction
UploadManySend(transactions, receipt) ==
    /\ umPc = "idle"
    /\ umCalls < MaxBundles
    /\ umCalls' = umCalls + 1
    /\ LET ephemeralKey == GenerateJWK(umKeys)
           txs == [k \in 1..Len(transactions) |->
                       MemberItem(transactions[k], ephemeralKey)]
           bundle == BundleAndSignData(txs, ephemeralKey)
           tx == Sign(CreateData("bundle", CurrencySigner, BundleTags, GetIds(bundle)),
                      CurrencySigner)
       IN  /\ umKeys' = Append(umKeys, ephemeralKey)
           /\ umCall' = [transactions |-> transactions, receipt |-> receipt,
                         ephemeralKey |-> ephemeralKey, bundle |-> bundle, tx |-> tx]
           /\ umSent' = <<tx>>
    /\ umPc' = "uploading"
    /\ umRes' = NoRet
    /\ umRet' = NoBundleRet
    /\ UNCHANGED <<utVars, poolVars, mfVars, piVars>>

\* upload.ts:242-247: uploadTransaction returns or throws, on the route it
\* took, and uploadMany ends
UploadManyRespond(route, resp) ==
    /\ umPc = "uploading"
    /\ LET res == UploadTransactionResult(route,
                       [isDataItem |-> TRUE, rawLen |-> 0, id |-> "bundleId",
                        receipt |-> umCall.receipt], resp)
       IN  /\ umRes' = res
           /\ umRet' = UploadManyResult(res, umCall)
    /\ umPc' = "idle"
    /\ UNCHANGED <<umCalls, umKeys, umCall, umSent>>
    /\ UNCHANGED <<utVars, poolVars, mfVars, piVars>>

BundleIdle ==
    /\ umPc = "idle"
    /\ umCalls = 0
    /\ umKeys = <<>>
    /\ umCall = NoBundleCall
    /\ umSent = <<>>
    /\ umRes = NoRet
    /\ umRet = NoBundleRet

BundleNext ==
    \/ \E transactions \in Transactions : \E receipt \in ReceiptOpts :
            UploadManySend(transactions, receipt)
    \/ \E route \in {"direct", "chunked"} : \E resp \in Responses :
            UploadManyRespond(route, resp)

(***************************************************************************)
(* Uploader.processItem and Uploader.uploadData (upload.ts:91-106,         *)
(* 159-164).                                                               *)
(***************************************************************************)
\* the data a caller can hand over: an item signed beforehand, a string of
\* some number of characters of one or two bytes each, a Buffer of some
\* length, or a Readable stream
ItemData ==
    { [type |-> "dataItem", chars |-> 0, width |-> 0, len |-> 0, item |-> m] :
        m \in {x \in Members : x.isDataItem} }
    \cup
    { [type |-> "string", chars |-> c, width |-> w, len |-> 0, item |-> RawMember("none")] :
        c \in {1, CHUNKING_THRESHOLD \div 2, CHUNKING_THRESHOLD, CHUNKING_THRESHOLD + 1},
        w \in {1, 2} }
    \cup
    { [type |-> "buffer", chars |-> 0, width |-> 0, len |-> l, item |-> RawMember("none")] :
        l \in RawLens }
    \cup
    { [type |-> "stream", chars |-> 0, width |-> 0, len |-> 0, item |-> RawMember("none")] }

\* opts?.anchor: absent, null, or a string
AnchorOpts ==
    { [given |-> FALSE, text |-> "undefined"], [given |-> FALSE, text |-> "null"],
      [given |-> TRUE, text |-> ""], [given |-> TRUE, text |-> "callerAnchor"] }

\* upload.ts:93  Buffer.from(data) of a string: its bytes
BufferFrom(data) ==
    [data EXCEPT !.type = "buffer", !.len = data.chars * data.width,
                 !.chars = 0, !.width = 0]

\* upload.ts:99  Crypto.randomBytes(n).toString("base64").slice(0, m): the
\* length of the text that comes out
RandomAnchorLength(n, m) ==
    LET base64 == 4 * ((n + 2) \div 3) IN IF base64 < m THEN base64 ELSE m

\* upload.ts:99  opts?.anchor ?? <random text>
Anchor(anchor) ==
    IF anchor.given
    THEN [source |-> "caller", text |-> anchor.text, length |-> 0]
    ELSE [source |-> "random", text |-> "random", length |-> RandomAnchorLength(32, 32)]

NoAnchor == [source |-> "none", text |-> "none", length |-> 0]

\* variant of the size test with < for <=
SignedHereStrict(len) == len < CHUNKING_THRESHOLD

\* upload.ts:96  data.length <= CHUNKING_THRESHOLD
SignedHere(len) == len <= CHUNKING_THRESHOLD

NoItemCall ==
    [entry |-> "none", data |-> [type |-> "none", chars |-> 0, width |-> 0, len |-> 0,
                                 item |-> RawMember("none")],
     anchor |-> [given |-> FALSE, text |-> "undefined"]]

NoItemDone == [signs |-> <<>>, anchor |-> NoAnchor, sent |-> <<>>, chunked |-> <<>>]

NoItemRet == [kind |-> "none", whole |-> FALSE, res |-> NoRet]

\* what the collaborators answer: uploadTransaction as modelled above, and
\* the chunked uploader's uploadData with a response or with a throw
ItemResponses ==
    { [status |-> st, statusText |-> "Created", data |-> b] :
        st \in {200, 402, 500}, b \in ServerBodies }

\* upload.ts:159-164 and 91-105, up to the call of the collaborator:
\* processItem hands a signed item to uploadTransaction as it is and anything
\* else to uploadData; uploadData turns a string into a Buffer, signs a
\* Buffer that is small enough and hands it to uploadTransaction, and hands
\* anything else to the chunked uploader
ProcessItemCall(entry, data, anchor) ==
    /\ piPc = "idle"
    /\ piCall' = [entry |-> entry, data |-> data, anchor |-> anchor]
    /\ piRet' = NoItemRet
    /\ IF entry = "processItem" /\ data.type = "dataItem"
       THEN /\ piDone' = [NoItemDone EXCEPT !.sent = <<data.item>>]
            /\ piPc' = "uploadTransaction"
       ELSE LET buf == IF data.type = "string" THEN BufferFrom(data) ELSE data
            IN  IF buf.type = "buffer" /\ SignedHere(buf.len)
                THEN LET dataItem == CreateData("data", CurrencySigner, NoTags, <<>>)
                     IN  /\ piDone' = [signs |-> <<CurrencySigner>>,
                                       anchor |-> Anchor(anchor),
                                       sent |-> <<Sign(dataItem, CurrencySigner)>>,
                                       chunked |-> <<>>]
                         /\ piPc' = "uploadTransaction"
                ELSE /\ piDone' = [NoItemDone EXCEPT !.chunked = <<buf>>]
                     /\ piPc' = "chunkedUploadData"
    /\ UNCHANGED <<utVars, poolVars, mfVars, umVars>>

\* upload.ts:161, 102, 105: the collaborator returns or throws; processItem
\* returns the response of an item signed beforehand, uploadData returns the
\* data of the response, and a throw is not caught
ProcessItemRespond(route, resp) ==
    /\ piPc \in {"uploadTransaction", "chunkedUploadData"}
    /\ piPc = "chunkedUploadData" => route = "chunked"
    /\ LET res == UploadTransactionResult(route,
                       [isDataItem |-> TRUE, rawLen |-> 0, id |-> "itemId",
                        receipt |-> "absent"], resp)
       IN  piRet' = [kind |-> res.kind,
                     whole |-> res.kind = "ok" /\ piCall.data.type = "dataItem",
                     res |-> res]
    /\ piPc' = "idle"
    /\ UNCHANGED <<piCall, piDone>>
    /\ UNCHANGED <<utVars, poolVars, mfVars, umVars>>

ItemIdle ==
    /\ piPc = "idle"
    /\ piCall = NoItemCall
    /\ piDone = NoItemDone
    /\ piRet = NoItemRet

ItemNext ==
    \/ \E entry \in {"processItem", "uploadData"} :
       \E data \in {d \in ItemData : entry = "uploadData" => d.type # "dataItem"} :
       \E anchor \in AnchorOpts :
            ProcessItemCall(entry, data, anchor)
    \/ \E route \in {"direct", "chunked"} : \E resp \in ItemResponses :
            ProcessItemRespond(route, resp)

Init == UploaderInit /\ PoolIdle /\ ManifestIdle /\ BundleIdle /\ ItemIdle

Spec == Init /\ [][Next]_vars

PoolStart == UploaderInit /\ PoolInit /\ ManifestIdle /\ BundleIdle /\ ItemIdle

PoolSpec == PoolStart /\ [][PoolNext]_vars

ManifestSpec == Init /\ [][ManifestNext]_vars

BundleSpec == Init /\ [][BundleNext]_vars

ItemSpec == Init /\ [][ItemNext]_vars

\* Every ready callback of the event loop runs: a started upload is answered
\* (or times out), a backoff timer fires, the pool's loop resumes.
FairPoolSpec == PoolSpec /\ WF_vars(PoolNext)


(***************************************************************************)
(* Properties of uploadTransaction, checked under Spec.                    *)
(***************************************************************************)

\* C1: every call of uploadTransaction is routed once: it calls the chunked
\* collaborator (once, and issues no direct POST) if and only if chunking is
\* forced, or the input is not a signed item, or it is a signed item of raw
\* size >= 50,000,000; otherwise it issues exactly one direct POST and does not
\* call the chunked collaborator.  Nothing after the routing step adds a request
\* on either path.
C1_RoutingDecidedOnce ==
    /\ [][ utCalls' # utCalls =>
             LET chunked == \/ forceUseChunking = "true"
                            \/ ~utCall'.isDataItem
                            \/ (utCall'.isDataItem /\ utCall'.rawLen >= 50000000)
             IN  /\ chunked => (utChunked' = 1 /\ utPosts' = 0)
                 /\ ~chunked => (utPosts' = 1 /\ utChunked' = 0) ]_vars
    /\ [][ utCalls' = utCalls => (utPosts' = utPosts /\ utChunked' = utChunked) ]_vars

\* a signed item one byte below the threshold went out by one direct POST and
\* the call returned
C1_Witness ==
    /\ utPc = "idle"
    /\ utCall.isDataItem
    /\ utCall.rawLen = CHUNKING_THRESHOLD - 1
    /\ utPosts = 1
    /\ utChunked = 0
    /\ utRet.kind = "ok"

\* C2: on either path a response with status 402 makes the call fail with the
\* funds message, and a response with any other status >= 400 makes it fail
\* with the rejection error carrying that status and status text.
C2_StatusClassification ==
    (utPc = "idle" /\ utCalls > 0) =>
        /\ utResponse.status = 402 =>
             /\ utRet.kind = "error"
             /\ utRet.error.text = "Not enough funds to send data"
        /\ (utResponse.status >= 400 /\ utResponse.status # 402) =>
             /\ utRet.kind = "error"
             /\ utRet.error.text = "whilst uploading Irys transaction"
             /\ utRet.error.status = utResponse.status
             /\ utRet.error.statusText = utResponse.statusText

\* a direct POST was answered 402 and the call failed with the funds message
C2_Witness ==
    /\ utPc = "idle"
    /\ utPosts = 1
    /\ utResponse.status = 402
    /\ utRet.kind = "error"
    /\ utRet.error.text = FundsMessage

\* C3, as stated: a call with a receipt requested that is answered 201 returns
\* the server body as it is, with verify attached.
C3_Original ==
    (utPc = "idle" /\ utCall.receipt = "true" /\ utResponse.status = 201) =>
        /\ utRet.kind = "ok"
        /\ utRet.data = utResponse.data
        /\ utRet.verify

\* C3, amended: a call with a receipt requested that is answered 201 returns the
\* server body as it is, with verify attached, only on the chunked path; on the
\* direct path it fails with an error whose message is the server body.
C3_Receipt201 ==
    (utPc = "idle" /\ utCall.receipt = "true" /\ utResponse.status = 201) =>
        /\ utChunked = 1 =>
             /\ utRet.kind = "ok"
             /\ utRet.data = utResponse.data
             /\ utRet.verify
        /\ utPosts = 1 =>
             /\ utRet.kind = "error"
             /\ utRet.error.text = "body"
             /\ utRet.error.body = utResponse.data

\* a direct POST with a receipt requested was answered 201 and the call threw
C3_Witness ==
    /\ utPc = "idle"
    /\ utPosts = 1
    /\ utCall.receipt = "true"
    /\ utResponse.status = 201
    /\ utRet.kind = "error"

\* C4: a call on the direct path with no receipt requested that is answered 201
\* returns exactly { id: item.id }, whatever the body of the response.
C4_Direct201Id ==
    (utPc = "idle" /\ utPosts = 1 /\ utCall.receipt # "true"
        /\ utResponse.status = 201) =>
        /\ utRet.kind = "ok"
        /\ utRet.data = [id |-> utCall.id, signature |-> "undefined"]
        /\ ~utRet.verify

\* such a call returned the item's id although the server sent another id and
\* a signature
C4_Witness ==
    /\ utPc = "idle"
    /\ utPosts = 1
    /\ utCall.receipt = "absent"
    /\ utResponse.status = 201
    /\ utResponse.data = [id |-> "srvId", signature |-> "sig"]
    /\ utRet.kind = "ok"
    /\ utRet.data.id = utCall.id


(***************************************************************************)
(* Properties of concurrentUploader, checked under PoolSpec.               *)
(***************************************************************************)

\* the items in flight: started by the pool and not settled, or with an
\* attempt's upload under way
InFlight == {i \in Items : task[i] = "running" \/ op[i] = "attempt"}

\* the entries of a list of errors that belong to item i / carry the funds message
EntriesOf(list, i) == {k \in 1..Len(list) : list[k].i = i}
FundsEntries(list) == {k \in 1..Len(list) : list[k].text = "Not enough funds to send data"}

\* handleError has been called with the funds condition
FundsObserved == FundsEntries(errors) # {}

\* C5: at every instant the number of items in flight is at most the effective
\* concurrency: the supplied value when it is >= 1, and 5 when it is absent or
\* below 1.
C5_ConcurrencyBound ==
    Cardinality(InFlight) <=
        (IF opts.concGiven /\ opts.conc >= 1 THEN opts.conc ELSE 5)

\* with no concurrency supplied, five items are in flight and a sixth waits
C5_Witness ==
    /\ ~opts.concGiven
    /\ Cardinality(InFlight) = 5
    /\ nextIdx < opts.n

\* C6, as stated: no item is attempted more than 3 times, and an item whose
\* attempts all fail with a non-fatal error is attempted exactly 3 times and
\* then appears exactly once in the error list.
C6_Original ==
    \A i \in Items :
        /\ attempts[i] <= 3
        /\ task[i] = "failed" =>
             (attempts[i] = 3 /\ Cardinality(EntriesOf(errors, i)) = 1)

\* C6, amended: no item is attempted more than 4 times (one attempt and 3
\* retries), and an item whose attempts all fail with a non-fatal error is
\* attempted exactly 4 times and then appears exactly once in the error list;
\* no item appears in the error list more than once.
C6_RetryBound ==
    \A i \in Items :
        /\ attempts[i] <= 4
        /\ Cardinality(EntriesOf(errors, i)) <= 1
        /\ task[i] = "failed" =>
             /\ attempts[i] = 4
             /\ op[i] = "done"
             /\ Cardinality(EntriesOf(errors, i)) = 1
             /\ \A k \in EntriesOf(errors, i) : errors[k].text = "other"
        /\ (task[i] = "running" /\ attempts[i] < 4) => EntriesOf(errors, i) = {}

\* an item was attempted four times and is once in the error list
C6_Witness ==
    \E i \in Items :
        /\ task[i] = "failed"
        /\ attempts[i] = 4
        /\ Cardinality(EntriesOf(errors, i)) = 1

\* C7: once handleError has seen the funds condition, no item that was not yet
\* started is started; the items in flight may go on.
C7_NoStartAfterFunds ==
    [][ FundsObserved =>
          /\ nextIdx' = nextIdx
          /\ \A i \in Items : task[i] = "pending" => task'[i] = "pending" ]_vars

\* the funds condition was seen while one item was still in flight and another
\* not yet started, and the item in flight has since finished
C7_Witness ==
    /\ FundsObserved
    /\ nextIdx < opts.n
    /\ \E i \in Items :
          /\ task[i] = "saved"
          /\ \E k \in FundsEntries(errors) : errors[k].i < i

\* C8, as stated: concurrentUploader never throws for item failures; a batch in
\* which an item fails with the funds condition still returns { errors, results },
\* with fewer entries than items and exactly one funds entry in errors.
C8_Original ==
    /\ phase # "thrown"
    /\ (FundsObserved /\ phase # "running") =>
          /\ ret.kind = "returned"
          /\ Cardinality(FundsEntries(ret.errors)) = 1

\* C8, amended: concurrentUploader never throws for non-fatal item failures,
\* which are returned as data in the errors list of { errors, results }; when
\* an item fails with the funds condition the call throws that error and
\* returns nothing, so a returned errors list holds no funds entry.
C8_ErrorsAsData ==
    /\ FundsObserved => (phase = "thrown" /\ ret.kind = "thrown"
                            /\ ret.error = "Not enough funds to send data")
    /\ phase = "thrown" => FundsObserved
    /\ phase = "returned" =>
          /\ ret.kind = "returned"
          /\ ret.errors = errors
          /\ FundsEntries(ret.errors) = {}
          /\ \A i \in Items :
                task[i] = "failed" <=> Cardinality(EntriesOf(ret.errors, i)) = 1

\* the call threw the funds error although an item had been uploaded
C8_Witness ==
    /\ phase = "thrown"
    /\ ret.kind = "thrown"
    /\ \E i \in Items : task[i] = "saved"
    /\ \E i \in Items : task[i] = "failed"

\* C9, as stated: the results list holds, for every item uploaded successfully,
\* one entry carrying the item, its upload result and its index (or what
\* resultProcessor returned for them), and no entry for a failed item.
C9_ResultsCarryItems ==
    /\ \A k \in 1..Len(results) :
          /\ results[k].defined
          /\ results[k].item \in Items
          /\ results[k].i = results[k].item
          /\ task[results[k].item] = "saved"
          /\ results[k].processed = opts.hasRP
    /\ \A i \in Items :
          task[i] = "saved" =>
              Cardinality({k \in 1..Len(results) : results[k].defined /\ results[k].i = i}) = 1

\* C10: in a batch with no funds failure, a non-fatal failure of one item does
\* not keep any other item from being started: every item is attempted, the
\* call returns, and results and errors together hold one entry per item.
C10_AllItemsSettle ==
    <>( \/ FundsObserved
        \/ /\ phase = "returned"
           /\ \A i \in Items : attempts[i] >= 1
           /\ Len(ret.results) + Len(ret.errors) = opts.n )

\* the call returned after an item failed for good and a later item, started
\* after that failure, was uploaded
C10_Witness ==
    /\ phase = "returned"
    /\ opts.concGiven /\ opts.conc = 1
    /\ \E i \in Items : \E j \in Items :
          /\ i < j
          /\ task[i] = "failed"
          /\ task[j] = "saved"
    /\ Len(ret.results) + Len(ret.errors) = opts.n


\* ---------------------------------------------------------------------------
\* generateManifest has been called
ManifestCalled == mfRet.kind # "none"

\* C11 as stated. generateManifest fails whenever an index path is supplied
\* that is not a key of items, for every supplied index path, the empty
\* string included, and returns no manifest.
C11_Original ==
    ManifestCalled /\ mfCall.indexFile.given
                   /\ mfCall.indexFile.path \notin DOMAIN mfCall.items
        => mfRet.kind = "error" /\ mfRet.manifest = NoManifest

\* C11. generateManifest fails whenever a non-empty index path is supplied
\* that is not a key of items: it throws the error that names the path and
\* returns no manifest. With the empty string as index path it does not fail.
C11_UnknownIndexTarget ==
    /\ ManifestCalled /\ mfCall.indexFile.given /\ mfCall.indexFile.path # ""
                      /\ mfCall.indexFile.path \notin DOMAIN mfCall.items
          => /\ mfRet.kind = "error"
             /\ mfRet.item = mfCall.indexFile.path
             /\ mfRet.manifest = NoManifest
    /\ ManifestCalled /\ mfCall.indexFile.given /\ mfCall.indexFile.path = ""
          => mfRet.kind = "manifest" /\ ~mfRet.manifest.hasIndex

\* a call with items and an index path that is none of their keys has thrown
C11_Witness ==
    /\ mfRet.kind = "error"
    /\ mfCall.indexFile.path = "missing.html"
    /\ "index.html" \in DOMAIN mfCall.items

\* ---------------------------------------------------------------------------
\* C12. Every manifest returned has manifest = "arweave/paths" and
\* version = "0.1.0", the keys of its paths are exactly the keys of items
\* with paths[k] = {id: items[k]}, and its index, when set, names a key of
\* paths.
C12_ManifestShape ==
    mfRet.kind = "manifest" =>
        LET m == mfRet.manifest
        IN  /\ m.manifest = "arweave/paths"
            /\ m.version = "0.1.0"
            /\ DOMAIN m.paths = DOMAIN mfCall.items
            /\ \A k \in DOMAIN mfCall.items : m.paths[k] = [id |-> mfCall.items[k]]
            /\ m.hasIndex => m.index.path \in DOMAIN m.paths

\* ---------------------------------------------------------------------------
\* C13. A successful uploadMany of N members returns in txs exactly N
\* identifiers, in input order: the one a member signed beforehand already
\* had, and for a raw member the one of its data signed with the call's key.
C13_MemberIds ==
    umRet.kind = "ok" =>
        /\ Len(umRet.txs) = Len(umCall.transactions)
        /\ \A k \in 1..Len(umCall.transactions) :
              LET tx == umCall.transactions[k]
              IN  IF tx.isDataItem
                  THEN umRet.txs[k] = tx.id
                  ELSE umRet.txs[k] = [by |-> umCall.ephemeralKey, of |-> tx.data]

\* a call with a raw member followed by a member signed beforehand returned
C13_Witness ==
    /\ umRet.kind = "ok"
    /\ Len(umCall.transactions) >= 2
    /\ ~umCall.transactions[1].isDataItem
    /\ umCall.transactions[2].isDataItem
    /\ umRet.txs[2] = umCall.transactions[2].id

\* ---------------------------------------------------------------------------
\* C14. Every uploadMany call generates one ephemeral key; no key is used by
\* two calls and none is the key of the configured signer; the ephemeralKey
\* returned is the key generated by the call, which signed its raw members.
C14_EphemeralKeys ==
    /\ Len(umKeys) = umCalls
    /\ \A j \in 1..Len(umKeys) : \A k \in 1..Len(umKeys) :
          j # k => umKeys[j] # umKeys[k]
    /\ \A k \in 1..Len(umKeys) : umKeys[k] # CurrencySigner
    /\ umCalls > 0 => umCall.ephemeralKey = umKeys[Len(umKeys)]
    /\ umRet.kind = "ok" =>
          /\ umRet.ephemeralKey = umCall.ephemeralKey
          /\ \A k \in 1..Len(umCall.transactions) :
                ~umCall.transactions[k].isDataItem
                    => /\ umCall.bundle[k].signed
                       /\ umCall.bundle[k].signer = umRet.ephemeralKey

\* a second call, with a raw member, has returned
C14_Witness ==
    /\ umCalls >= 2
    /\ umRet.kind = "ok"
    /\ \E k \in 1..Len(umCall.transactions) : ~umCall.transactions[k].isDataItem

\* ---------------------------------------------------------------------------
\* the current uploadMany call has reached its upload
BundleSent == umPc = "uploading" \/ umRet.kind # "none"

\* C15. uploadMany calls uploadTransaction once, for the wrapping item, which
\* is signed by the configured signer and tagged Bundle-Format = binary and
\* Bundle-Version = 2.0.0; no member is uploaded on its own; and when that
\* upload fails uploadMany fails with the same error and returns no txs,
\* ephemeralKey or ephemeralAddress.
C15_SingleUpload ==
    /\ BundleSent =>
          /\ Len(umSent) = 1
          /\ umSent[1] = umCall.tx
          /\ umSent[1].signed /\ umSent[1].signer = CurrencySigner
          /\ umSent[1].tags = BundleTags
          /\ umSent[1].bundled = GetIds(umCall.bundle)
          /\ \A k \in 1..Len(umCall.bundle) : umSent[1] # umCall.bundle[k]
    /\ umRes.kind = "error" =>
          /\ umRet.kind = "error"
          /\ umRet.res = umRes
          /\ umRet.txs = <<>>
          /\ umRet.ephemeralKey = NoKey
          /\ umRet.ephemeralAddress = EphemeralAddress(NoKey)

\* the upload of a bundle with members was refused for lack of funds
C15_Witness ==
    /\ umRet.kind = "error"
    /\ umRes.error.text = FundsMessage
    /\ Len(umCall.transactions) >= 1
    /\ Len(umSent) = 1

\* ---------------------------------------------------------------------------
\* C16. When an attempt of an item fails with the funds error, the retry loop
\* of that item stops at once: no further attempt of that item is begun. The
\* funds failure of an item is the one that makes its task "fatal".
C16_NoAttemptAfterFunds ==
    [][ \A i \in Items : task[i] = "fatal" => attempts'[i] = attempts[i] ]_vars

\* ---------------------------------------------------------------------------
\* the runs in which every upload succeeds and only logFunction is supplied:
\* every failed attempt of such a run is a throw of logFunction
LogOnlyRun == opts.hasLog /\ ~opts.hasRP /\ server = {200}

\* the items of which some attempt has failed
FailedAttempts ==
    {i \in Items : op[i] = "wait" \/ attempts[i] > 1 \/ task[i] \in {"failed", "fatal"}}

\* C17 as stated. A throw of logFunction never aborts the batch: in a run
\* where nothing but logFunction fails, concurrentUploader does not throw.
C17_Original == LogOnlyRun => phase # "thrown"

\* C17. A throw of logFunction with any message but the funds message never
\* aborts the batch: once logFunction has thrown for an item, either one of
\* its throws carried the funds message, or every item is attempted and the
\* call returns its {errors, results} with one entry for each item.
C17_LogFailureNotFatal ==
    [](LogOnlyRun /\ FailedAttempts # {}
         => <>( \/ FundsObserved
                \/ /\ phase = "returned"
                   /\ \A i \in Items : attempts[i] >= 1
                   /\ Len(ret.results) + Len(ret.errors) = opts.n ))

\* logFunction threw in every attempt of an item, the item is reported in
\* errors, and an item started after that was uploaded and the call returned
C17_Witness ==
    /\ LogOnlyRun
    /\ phase = "returned"
    /\ ~FundsObserved
    /\ \E i \in Items : \E j \in Items :
          /\ i < j
          /\ task[i] = "failed" /\ uploads[i] = 1 + Retries
          /\ attempts[j] >= 1 /\ task[j] = "saved"
    /\ Len(ret.errors) >= 1

\* ---------------------------------------------------------------------------
\* C18. An item whose upload (processItem) has succeeded is not uploaded
\* again in the same run: at most one upload succeeds for each item, whatever
\* logFunction or resultProcessor do after it.
C18_UploadedOnce == \A i \in Items : uploads[i] <= 1

\* ---------------------------------------------------------------------------
\* C19. Items are started in input order; an error is added at the end of
\* errors when it occurs, for an item that was running; a result is added at
\* the end of results when its item completes, so results are in completion
\* order.
C19_Ordering ==
    [][ /\ \A i \in Items :
              task[i] = "pending" /\ task'[i] # "pending"
                  => \A j \in Items : j < i => task[j] # "pending"
        /\ \/ errors' = errors
           \/ /\ Len(errors') = Len(errors) + 1
              /\ SubSeq(errors', 1, Len(errors)) = errors
              /\ LET e == errors'[Len(errors')]
                 IN  /\ e.i \in Items
                     /\ task[e.i] = "running"
                     /\ task'[e.i] \in {"failed", "fatal"}
        /\ \/ results' = results
           \/ /\ Len(results') = Len(results) + 1
              /\ SubSeq(results', 1, Len(results)) = results
              /\ \E i \in Items : task[i] = "running" /\ task'[i] = "saved"
      ]_vars

\* the call returned with two errors whose order is the order in which they
\* occurred and not the order of the items, and with a result
C19_Witness ==
    /\ phase = "returned"
    /\ Len(ret.errors) >= 2
    /\ ret.errors[1].i > ret.errors[2].i
    /\ Len(ret.results) >= 1


\* ---------------------------------------------------------------------------
\* the bytes of the data of the current processItem / uploadData call
ItemBytes ==
    IF piCall.data.type = "string" THEN piCall.data.chars * piCall.data.width
    ELSE piCall.data.len

\* C20. Each processItem / uploadData call takes one of three routes: an
\* item signed beforehand goes to uploadTransaction as it is, with no
\* signature made; a string or Buffer of at most 50,000,000 bytes becomes one
\* item, signed once by the configured signer, with the caller's anchor or a
\* random one of 32 characters, which goes to uploadTransaction; a stream or
\* a larger Buffer goes to the chunked uploader's uploadData with no
\* signature made.
C20_ThreeRoutes ==
    piCall.entry # "none" =>
        IF piCall.data.type = "dataItem"
        THEN /\ piDone.sent = <<piCall.data.item>>
             /\ piDone.signs = <<>>
             /\ piDone.chunked = <<>>
        ELSE IF piCall.data.type \in {"string", "buffer"} /\ ItemBytes <= 50000000
        THEN /\ Len(piDone.sent) = 1
             /\ piDone.sent[1].signed /\ piDone.sent[1].signer = CurrencySigner
             /\ piDone.signs = <<CurrencySigner>>
             /\ IF piCall.anchor.given
                THEN piDone.anchor.source = "caller"
                     /\ piDone.anchor.text = piCall.anchor.text
                ELSE piDone.anchor.source = "random" /\ piDone.anchor.length = 32
             /\ piDone.chunked = <<>>
        ELSE /\ piDone.sent = <<>>
             /\ piDone.signs = <<>>
             /\ Len(piDone.chunked) = 1
             /\ piDone.chunked[1].type \in {"buffer", "stream"}
             /\ piDone.chunked[1].len = ItemBytes

\* a Buffer of exactly 50,000,000 bytes, given no anchor, was signed here and
\* its upload returned
C20_Witness ==
    /\ piRet.kind = "ok"
    /\ piCall.data.type = "buffer"
    /\ piCall.data.len = CHUNKING_THRESHOLD
    /\ ~piCall.anchor.given
    /\ Len(piDone.sent) = 1

=============================================================================
